---- MODULE Spec2Model ----
(***************************************************************************)
(* The task service of My-secondweb: the two server variants               *)
(*   "path" : src/server.js           (attachment stored as a file path)   *)
(*   "blob" : src/unnamed/part_001    (attachment stored in a GridFS       *)
(*                                     bucket)                             *)
(* over one task collection.  A handler that awaits one store operation    *)
(* is one action; the two blob handlers that await several store           *)
(* operations (create with a file, permanent delete) are split at their    *)
(* awaits, so that other requests interleave with them.                    *)
(*                                                                         *)
(* Ids range over well-formed ObjectId values (those the store assigns,    *)
(* whether or not a document with that id exists).  Request bodies are     *)
(* arbitrary: text and completed may be missing or of the wrong shape.     *)
(*                                                                         *)
(* The page script src/unnamed/part_000 is the client: each of its async    *)
(* handlers is a call that is suspended at its fetches.                    *)
(*                                                                         *)
(* Five specifications run the same handlers:                              *)
(*   Spec       : one client, arbitrary texts, a store that may fail       *)
(*   SpecLife   : one client, arbitrary completed and status values, the   *)
(*                clock advancing                                          *)
(*   SpecConc   : overlapping requests, a store that may fail              *)
(*   SpecStart  : the server from the start of its process, the store      *)
(*                connection opening or failing                            *)
(*   SpecClient : the page against a server whose store answers            *)
(***************************************************************************)
EXTENDS Integers, Sequences, FiniteSets, TLC

\* ---------------------------------------------------------------- bounds
MaxTasks == 2
MaxLen == 2
MaxClock == 1
MaxInFlight == 2
MaxBlobs == 2
MaxCalls == 2

\* ---------------------------------------------------------------- values
\* JavaScript values of a request body are encoded as strings (booleans,
\* null, undefined, other scalars) and texts as sequences of characters.
Null == "null"
Undefined == "undefined"
True == "true"
False == "false"
\* body.text absent: no character sequence at all
NoText == <<"undefined">>
\* deletedAt: null
NullDate == -1
\* attachment: null
NoAttachment == 0
\* body.primary absent
NoId == 0

Variants == {"path", "blob"}
Ids == 1..MaxTasks
Slots == 1..MaxInFlight
BlobNames == 1..MaxBlobs

\* strings are sequences of characters; " " is the only whitespace
Chars == {" ", "a"}
Strings == UNION {[1..k -> Chars] : k \in 0..MaxLen}

\* what a request may carry as body.text
TextInputs == Strings \cup {NoText}
\* what a request may carry as body.completed
CompletedInputs == {True, False, Null, Undefined, "yes", "abc"}
\* what a request may carry as body.primary
PrimaryInputs == Ids \cup {NoId}
\* what a request may carry as query.status
StatusInputs == {"all", "completed", "incomplete", "trashed", "other", Undefined}

\* ------------------------------------------------------- String.trim()
RECURSIVE TrimStart(_)
TrimStart(s) ==
  IF s = <<>> THEN s
  ELSE IF Head(s) = " " THEN TrimStart(Tail(s)) ELSE s

RECURSIVE TrimEnd(_)
TrimEnd(s) ==
  IF s = <<>> THEN s
  ELSE IF s[Len(s)] = " " THEN TrimEnd(SubSeq(s, 1, Len(s) - 1)) ELSE s

Trim(s) == TrimEnd(TrimStart(s))

\* text?.trim() : undefined when text is null or undefined
OptTrim(text) == IF text = NoText THEN NoText ELSE Trim(text)

\* variant of Falsy that tests only for a missing text
FalsyOnlyUndefined(v) == v = NoText

\* !v for v a string or undefined
Falsy(v) == v = NoText \/ v = <<>>

\* ------------------------------------------------------- schema
\* variant of RequiredOk that lets the empty string pass
RequiredAcceptsEmpty(v) == v # NoText

\* The required validator of a String path: fails on undefined, null, "".
RequiredOk(v) == v # NoText /\ v # <<>>

\* Mongoose's Boolean cast: the convertToTrue / convertToFalse sets; null
\* and undefined pass through; anything else is a CastError.
Castable(v) == v \in {True, False, Null, Undefined, "yes"}

CastBoolean(v) == IF v = "yes" THEN True ELSE v

\* new Task({text, attachment}) with the schema defaults
NewTask(text, attachment, now) ==
  [text |-> text, attachment |-> attachment, completed |-> False,
   createdAt |-> now, deletedAt |-> NullDate]

\* ------------------------------------------------------- state
VARIABLES
  variant,    \* which server is running
  tasks,      \* the task collection: _id -> document
  nextId,     \* the next _id the store assigns
  blobs,      \* the filenames in uploads.files (blob variant)
  nextBlob,   \* the next random filename
  clock,      \* Date.now()
  inflight,   \* requests suspended at an await, by slot
  resp,       \* the last response sent
  connection, \* the store connection: "connecting", "open", "failed", or
              \* "exited" once the process has ended
  currentFilter,  \* the client's currentFilter
  list,       \* the rows the client has rendered in #taskList
  calls       \* the client's event handlers suspended at a fetch

\* the state of the page
clientVars == <<currentFilter, list, calls>>

vars == <<variant, tasks, nextId, blobs, nextBlob, clock, inflight, resp,
          connection, currentFilter, list, calls>>

NoResp == [op |-> "none", code |-> 0, error |-> "", out |-> <<>>]

IdleReq == [op |-> "idle", pc |-> "", id |-> NoId, text |-> <<>>, file |-> NoAttachment]

\* the client's async functions that may be suspended at a fetch at once
Calls == 1..MaxCalls

\* a call: which handler it is (kind), where its first fetch is (req) and
\* where the fetch of its loadTasks() is (load), the arguments of the
\* request, and the body of the response on its way back
IdleCall ==
  [kind |-> "idle", req |-> "none", load |-> "none", id |-> NoId, text |-> <<>>,
   completed |-> False, isList |-> FALSE, rows |-> <<>>]

\* the server process before it has taken a step
Startup ==
  /\ variant \in Variants
  /\ tasks = <<>>
  /\ nextId = 1
  /\ blobs = {}
  /\ nextBlob = 1
  /\ clock = 0
  /\ inflight = [s \in Slots |-> IdleReq]
  /\ resp = NoResp

\* no page is open
NoPage ==
  /\ currentFilter = "all"
  /\ list = <<>>
  /\ calls = [c \in Calls |-> IdleCall]

\* the server once its store connection is open
Init == Startup /\ connection = "open" /\ NoPage

\* res.status(code).json(...) of route op: the status code, the error
\* message of the body, and the _ids of the documents of the body
Respond(op, code, error, out) ==
  resp' = [op |-> op, code |-> code, error |-> error, out |-> out]

Exists(id) == id \in DOMAIN tasks
Active(id) == Exists(id) /\ tasks[id].deletedAt = NullDate
Trashed(id) == Exists(id) /\ tasks[id].deletedAt # NullDate

\* the collection with document id inserted or replaced
Put(id, doc) == [i \in DOMAIN tasks \cup {id} |-> IF i = id THEN doc ELSE tasks[i]]
\* the collection without document id
Remove(id) == [i \in DOMAIN tasks \ {id} |-> tasks[i]]

\* the error messages the handlers put in a response body
TextRequired == "Task text required"
NotFound == "Task not found"
NotFoundActive == "Task not found or already trashed"
NotInTrash == "Task not found in trash"
NotTrashed == "Task not found or not trashed"
CreationFailed == "Task creation failed"
FileMissing == "File not found"
\* err.message of the errors the store layer throws
StoreError == "err.message: store unavailable"
ValidationError == "err.message: Validation failed"
CastError == "err.message: Cast to Boolean failed"
FileNotFound == "err.message: FileNotFound"

\* ------------------------------------------------------- filters
\* a filter is [completed: True | False | "any", deletedAt: "null" | "ne"]
buildFilter(status) ==
  CASE status = "completed" -> [completed |-> True, deletedAt |-> "null"]
    [] status = "incomplete" -> [completed |-> False, deletedAt |-> "null"]
    [] status = "trashed" -> [completed |-> "any", deletedAt |-> "ne"]
    [] OTHER -> [completed |-> "any", deletedAt |-> "null"]

\* whether a document matches a filter, as the store matches it: a field
\* condition matches documents whose field equals the value
Matches(doc, filter) ==
  /\ filter.completed = "any" \/ doc.completed = filter.completed
  /\ IF filter.deletedAt = "null" THEN doc.deletedAt = NullDate
     ELSE doc.deletedAt # NullDate

Find(filter) == {i \in DOMAIN tasks : Matches(tasks[i], filter)}

\* the orders .sort({createdAt: -1}) may return the documents S in: the
\* order of documents with equal createdAt is the store's choice
SortedDesc(S) ==
  {q \in [1..Cardinality(S) -> S] :
     /\ \A i, j \in 1..Cardinality(S) : i # j => q[i] # q[j]
     /\ \A i, j \in 1..Cardinality(S) :
          i < j => tasks[q[i]].createdAt >= tasks[q[j]].createdAt}

\* ------------------------------------------------------- handlers
Tick ==
  /\ clock < MaxClock
  /\ clock' = clock + 1
  /\ UNCHANGED <<variant, tasks, nextId, blobs, nextBlob, inflight, resp>>

\* multer's disk filename: Date.now() + '-' + originalname
DiskPath(now) == now + 1

\* POST /api/tasks/create, path variant.  ok: Task.create succeeds
CreatePath(text, hasFile, ok) ==
  /\ variant = "path"
  /\ IF Falsy(OptTrim(text))
     THEN /\ Respond("create", 400, TextRequired, <<>>)
          /\ UNCHANGED <<tasks, nextId>>
     ELSE IF ~ok
     THEN /\ Respond("create", 500, StoreError, <<>>)
          /\ UNCHANGED <<tasks, nextId>>
     ELSE /\ nextId <= MaxTasks
          /\ tasks' = Put(nextId, NewTask(Trim(text),
                            IF hasFile THEN DiskPath(clock) ELSE NoAttachment, clock))
          /\ nextId' = nextId + 1
          /\ Respond("create", 201, "", <<nextId>>)
  /\ UNCHANGED <<variant, blobs, nextBlob, clock, inflight>>

\* GET /api/tasks/view, both variants.  ok: Task.find succeeds
View(status, ok) ==
  /\ IF ~ok
     THEN Respond("view", 500, StoreError, <<>>)
     ELSE \E q \in SortedDesc(Find(buildFilter(status))) :
            Respond("view", 200, "", q)
  /\ UNCHANGED <<variant, tasks, nextId, blobs, nextBlob, clock, inflight>>

\* variant of StatusTargets whose filter leaves out deletedAt: null
StatusTargetsAnyState(primary) ==
  IF primary = NoId THEN {NoId} \cup {i \in Ids : Active(i)}
  ELSE IF Exists(primary) THEN {primary} ELSE {NoId}

\* the documents {_id: primary, deletedAt: null} may select; NoId: none.
\* With primary undefined the driver either drops the key (any active
\* document matches) or sends it as null (none does).
StatusTargets(primary) ==
  IF primary = NoId THEN {NoId} \cup {i \in Ids : Active(i)}
  ELSE IF Active(primary) THEN {primary} ELSE {NoId}

\* PATCH /api/tasks/status, both variants.  ok: the store answers.
\* An undefined completed is either dropped from the update by the build
\* (strip) or sent to the store, which writes it as null.
Status(primary, completed, ok) ==
  /\ IF ~Castable(completed)
     THEN /\ Respond("status", 500, CastError, <<>>)
          /\ UNCHANGED tasks
     ELSE IF ~ok
     THEN /\ Respond("status", 500, StoreError, <<>>)
          /\ UNCHANGED tasks
     ELSE \E target \in StatusTargets(primary) :
            IF target = NoId
            THEN /\ Respond("status", 404, NotFound, <<>>)
                 /\ UNCHANGED tasks
            ELSE /\ Respond("status", 200, "", <<target>>)
                 /\ IF completed = Undefined
                    THEN \E strip \in BOOLEAN :
                           IF strip THEN UNCHANGED tasks
                           ELSE tasks' = [tasks EXCEPT ![target].completed = Null]
                    ELSE tasks' = [tasks EXCEPT ![target].completed = CastBoolean(completed)]
  /\ UNCHANGED <<variant, nextId, blobs, nextBlob, clock, inflight>>

\* variant of Edit that replaces the document instead of setting its text
EditReplacesDocument(id, text, ok) ==
  /\ \E strip \in (IF OptTrim(text) = NoText THEN BOOLEAN ELSE {FALSE}) :
       IF ~RequiredOk(OptTrim(text)) /\ ~strip
       THEN /\ Respond("edit", 500, ValidationError, <<>>)
            /\ UNCHANGED tasks
       ELSE IF ~ok
       THEN /\ Respond("edit", 500, StoreError, <<>>)
            /\ UNCHANGED tasks
       ELSE IF ~Active(id)
       THEN /\ Respond("edit", 404, NotFound, <<>>)
            /\ UNCHANGED tasks
       ELSE /\ Respond("edit", 200, "", <<id>>)
            /\ IF OptTrim(text) = NoText THEN UNCHANGED tasks
               ELSE tasks' = [tasks EXCEPT ![id] =
                      NewTask(OptTrim(text), NoAttachment, tasks[id].createdAt)]
  /\ UNCHANGED <<variant, nextId, blobs, nextBlob, clock, inflight>>

\* PUT /api/tasks/:id, both variants.  ok: the store answers.
\* An undefined text is either dropped from the update by the build
\* (strip), which then validates nothing, or fails the required validator.
Edit(id, text, ok) ==
  /\ \E strip \in (IF OptTrim(text) = NoText THEN BOOLEAN ELSE {FALSE}) :
       IF ~RequiredOk(OptTrim(text)) /\ ~strip
       THEN /\ Respond("edit", 500, ValidationError, <<>>)
            /\ UNCHANGED tasks
       ELSE IF ~ok
       THEN /\ Respond("edit", 500, StoreError, <<>>)
            /\ UNCHANGED tasks
       ELSE IF ~Active(id)
       THEN /\ Respond("edit", 404, NotFound, <<>>)
            /\ UNCHANGED tasks
       ELSE /\ Respond("edit", 200, "", <<id>>)
            /\ IF OptTrim(text) = NoText THEN UNCHANGED tasks
               ELSE tasks' = [tasks EXCEPT ![id].text = OptTrim(text)]
  /\ UNCHANGED <<variant, nextId, blobs, nextBlob, clock, inflight>>

\* variant of SoftDelete whose filter leaves out deletedAt: null
SoftDeleteAnyState(id, ok) ==
  /\ IF ~ok
     THEN /\ Respond("delete", 500, StoreError, <<>>)
          /\ UNCHANGED tasks
     ELSE IF ~Exists(id)
     THEN /\ Respond("delete", 404, NotFoundActive, <<>>)
          /\ UNCHANGED tasks
     ELSE /\ Respond("delete", 200, "", <<id>>)
          /\ tasks' = [tasks EXCEPT ![id].deletedAt = clock]
  /\ UNCHANGED <<variant, nextId, blobs, nextBlob, clock, inflight>>

\* DELETE /api/tasks/delete/:id, both variants
SoftDelete(id, ok) ==
  /\ IF ~ok
     THEN /\ Respond("delete", 500, StoreError, <<>>)
          /\ UNCHANGED tasks
     ELSE IF ~Active(id)
     THEN /\ Respond("delete", 404, NotFoundActive, <<>>)
          /\ UNCHANGED tasks
     ELSE /\ Respond("delete", 200, "", <<id>>)
          /\ tasks' = [tasks EXCEPT ![id].deletedAt = clock]
  /\ UNCHANGED <<variant, nextId, blobs, nextBlob, clock, inflight>>

\* variant of Restore that also resets completed
RestoreResetsCompleted(id, ok) ==
  /\ IF ~ok
     THEN /\ Respond("restore", 500, StoreError, <<>>)
          /\ UNCHANGED tasks
     ELSE IF ~Trashed(id)
     THEN /\ Respond("restore", 404, NotInTrash, <<>>)
          /\ UNCHANGED tasks
     ELSE /\ Respond("restore", 200, "", <<id>>)
          /\ tasks' = [tasks EXCEPT ![id].deletedAt = NullDate, ![id].completed = False]
  /\ UNCHANGED <<variant, nextId, blobs, nextBlob, clock, inflight>>

\* PATCH /api/tasks/restore/:id, both variants
Restore(id, ok) ==
  /\ IF ~ok
     THEN /\ Respond("restore", 500, StoreError, <<>>)
          /\ UNCHANGED tasks
     ELSE IF ~Trashed(id)
     THEN /\ Respond("restore", 404, NotInTrash, <<>>)
          /\ UNCHANGED tasks
     ELSE /\ Respond("restore", 200, "", <<id>>)
          /\ tasks' = [tasks EXCEPT ![id].deletedAt = NullDate]
  /\ UNCHANGED <<variant, nextId, blobs, nextBlob, clock, inflight>>

\* variant of PermanentDeletePath whose filter leaves out deletedAt
PermanentDeleteAnyState(id, ok) ==
  /\ variant = "path"
  /\ IF ~ok
     THEN /\ Respond("pdelete", 500, StoreError, <<>>)
          /\ UNCHANGED tasks
     ELSE IF ~Exists(id)
     THEN /\ Respond("pdelete", 404, NotTrashed, <<>>)
          /\ UNCHANGED tasks
     ELSE /\ Respond("pdelete", 200, "", <<>>)
          /\ tasks' = Remove(id)
  /\ UNCHANGED <<variant, nextId, blobs, nextBlob, clock, inflight>>

\* DELETE /api/tasks/permanent-delete/:id, path variant: one deleteOne
\* with the filter {_id, deletedAt: {$ne: null}}
PermanentDeletePath(id, ok) ==
  /\ variant = "path"
  /\ IF ~ok
     THEN /\ Respond("pdelete", 500, StoreError, <<>>)
          /\ UNCHANGED tasks
     ELSE IF ~Trashed(id)
     THEN /\ Respond("pdelete", 404, NotTrashed, <<>>)
          /\ UNCHANGED tasks
     ELSE /\ Respond("pdelete", 200, "", <<>>)
          /\ tasks' = Remove(id)
  /\ UNCHANGED <<variant, nextId, blobs, nextBlob, clock, inflight>>

\* ------------------------------------------------------- blob variant
HasFreeSlot == \E s \in Slots : inflight[s] = IdleReq
FreeSlot == CHOOSE s \in Slots : inflight[s] = IdleReq /\ \A t \in 1..(s - 1) : inflight[t] # IdleReq

\* creates suspended between the upload and Task.create
PendingCreates == Cardinality({s \in Slots : inflight[s].op = "create"})

\* POST /api/tasks/create, blob variant, up to its first await.
\* ok: the first store operation (the upload, or Task.create when there is
\* no file) succeeds
CreateBlob(text, hasFile, ok) ==
  /\ variant = "blob"
  /\ IF Falsy(OptTrim(text))
     THEN /\ Respond("create", 400, TextRequired, <<>>)
          /\ UNCHANGED <<tasks, nextId, blobs, nextBlob, inflight>>
     ELSE IF ~ok
     THEN /\ Respond("create", 500, CreationFailed, <<>>)
          /\ UNCHANGED <<tasks, nextId, blobs, nextBlob, inflight>>
     ELSE IF ~hasFile
     THEN /\ nextId + PendingCreates <= MaxTasks
          /\ tasks' = Put(nextId, NewTask(Trim(text), NoAttachment, clock))
          /\ nextId' = nextId + 1
          /\ Respond("create", 201, "", <<nextId>>)
          /\ UNCHANGED <<blobs, nextBlob, inflight>>
     ELSE /\ nextId + PendingCreates <= MaxTasks
          /\ nextBlob <= MaxBlobs
          /\ HasFreeSlot
          /\ blobs' = blobs \cup {nextBlob}
          /\ nextBlob' = nextBlob + 1
          /\ inflight' = [inflight EXCEPT ![FreeSlot] =
               [op |-> "create", pc |-> "insert", id |-> NoId,
                text |-> Trim(text), file |-> nextBlob]]
          /\ resp' = NoResp
          /\ UNCHANGED <<tasks, nextId>>
  /\ UNCHANGED <<variant, clock>>

\* ... the rest of it: Task.create({text, attachment: filename})
CreateBlobInsert(s, ok) ==
  /\ inflight[s].op = "create"
  /\ inflight' = [inflight EXCEPT ![s] = IdleReq]
  /\ IF ~ok
     THEN /\ Respond("create", 500, CreationFailed, <<>>)
          /\ UNCHANGED <<tasks, nextId>>
     ELSE /\ tasks' = Put(nextId, NewTask(inflight[s].text, inflight[s].file, clock))
          /\ nextId' = nextId + 1
          /\ Respond("create", 201, "", <<nextId>>)
  /\ UNCHANGED <<variant, blobs, nextBlob, clock>>

\* GET /api/tasks/file/:filename
File(name, ok) ==
  /\ variant = "blob"
  /\ IF ~ok THEN Respond("file", 500, StoreError, <<>>)
     ELSE IF name \notin blobs THEN Respond("file", 404, FileMissing, <<>>)
     ELSE Respond("file", 200, "", <<>>)
  /\ UNCHANGED <<variant, tasks, nextId, blobs, nextBlob, clock, inflight>>

\* DELETE /api/tasks/permanent-delete/:id, blob variant:
\* Task.findOne({_id, deletedAt: {$ne: null}})
PermanentDeleteFind(id, ok) ==
  /\ variant = "blob"
  /\ IF ~ok
     THEN /\ Respond("pdelete", 500, StoreError, <<>>)
          /\ UNCHANGED inflight
     ELSE IF ~Trashed(id)
     THEN /\ Respond("pdelete", 404, NotTrashed, <<>>)
          /\ UNCHANGED inflight
     ELSE /\ HasFreeSlot
          /\ inflight' = [inflight EXCEPT ![FreeSlot] =
               [op |-> "pdelete",
                pc |-> IF tasks[id].attachment # NoAttachment THEN "lookup" ELSE "remove",
                id |-> id, text |-> <<>>, file |-> tasks[id].attachment]]
          /\ resp' = NoResp
  /\ UNCHANGED <<variant, tasks, nextId, blobs, nextBlob, clock>>

\* variant of PermanentDeleteLookup that never finds the file document
PermanentDeleteLookupSkipsFile(s, ok) ==
  /\ inflight[s].op = "pdelete" /\ inflight[s].pc = "lookup"
  /\ IF ~ok
     THEN /\ Respond("pdelete", 500, StoreError, <<>>)
          /\ inflight' = [inflight EXCEPT ![s] = IdleReq]
     ELSE /\ inflight' = [inflight EXCEPT ![s].pc = "remove"]
          /\ UNCHANGED resp
  /\ UNCHANGED <<variant, tasks, nextId, blobs, nextBlob, clock>>

\* ... uploads.files.findOne({filename: task.attachment})
PermanentDeleteLookup(s, ok) ==
  /\ inflight[s].op = "pdelete" /\ inflight[s].pc = "lookup"
  /\ IF ~ok
     THEN /\ Respond("pdelete", 500, StoreError, <<>>)
          /\ inflight' = [inflight EXCEPT ![s] = IdleReq]
     ELSE /\ inflight' = [inflight EXCEPT ![s].pc =
               IF inflight[s].file \in blobs THEN "unlink" ELSE "remove"]
          /\ UNCHANGED resp
  /\ UNCHANGED <<variant, tasks, nextId, blobs, nextBlob, clock>>

\* ... gfsBucket.delete(fileDoc._id): throws when the file is gone
PermanentDeleteUnlink(s, ok) ==
  /\ inflight[s].op = "pdelete" /\ inflight[s].pc = "unlink"
  /\ IF ~ok \/ inflight[s].file \notin blobs
     THEN /\ Respond("pdelete", 500, IF ok THEN FileNotFound ELSE StoreError, <<>>)
          /\ inflight' = [inflight EXCEPT ![s] = IdleReq]
          /\ UNCHANGED blobs
     ELSE /\ blobs' = blobs \ {inflight[s].file}
          /\ inflight' = [inflight EXCEPT ![s].pc = "remove"]
          /\ UNCHANGED resp
  /\ UNCHANGED <<variant, tasks, nextId, nextBlob, clock>>

\* ... task.deleteOne(): deletes the document with the _id read earlier
PermanentDeleteRemove(s, ok) ==
  /\ inflight[s].op = "pdelete" /\ inflight[s].pc = "remove"
  /\ inflight' = [inflight EXCEPT ![s] = IdleReq]
  /\ IF ~ok
     THEN /\ Respond("pdelete", 500, StoreError, <<>>)
          /\ UNCHANGED tasks
     ELSE /\ Respond("pdelete", 200, "", <<>>)
          /\ tasks' = Remove(inflight[s].id)
  /\ UNCHANGED <<variant, nextId, blobs, nextBlob, clock>>

\* ------------------------------------------------------- specification
\* no request is suspended at an await
Quiet == \A s \in Slots : inflight[s] = IdleReq

\* whether a request may arrive: always when requests overlap, else only
\* when the previous one has been answered
MaySend(overlap) == connection = "open" /\ (overlap \/ Quiet)

\* what the handlers of the server leave alone
rest == <<connection, currentFilter, list, calls>>

\* a request arrives and runs up to its first await; the sets are the
\* values its body, its query and the store's answer are drawn from
Request(texts, files, completeds, statuses, oks, overlap) ==
  \/ \E text \in texts, hasFile \in files, ok \in oks :
        MaySend(overlap) /\ CreatePath(text, hasFile, ok) /\ UNCHANGED rest
  \/ \E status \in statuses, ok \in oks : MaySend(overlap) /\ View(status, ok) /\ UNCHANGED rest
  \/ \E primary \in PrimaryInputs, completed \in completeds, ok \in oks :
        MaySend(overlap) /\ Status(primary, completed, ok) /\ UNCHANGED rest
  \/ \E id \in Ids, text \in texts, ok \in oks : MaySend(overlap) /\ Edit(id, text, ok) /\ UNCHANGED rest
  \/ \E id \in Ids, ok \in oks : MaySend(overlap) /\ SoftDelete(id, ok) /\ UNCHANGED rest
  \/ \E id \in Ids, ok \in oks : MaySend(overlap) /\ Restore(id, ok) /\ UNCHANGED rest
  \/ \E id \in Ids, ok \in oks : MaySend(overlap) /\ PermanentDeletePath(id, ok) /\ UNCHANGED rest
  \/ \E text \in texts, hasFile \in files, ok \in oks :
        MaySend(overlap) /\ CreateBlob(text, hasFile, ok) /\ UNCHANGED rest
  \/ \E name \in BlobNames, ok \in oks : MaySend(overlap) /\ File(name, ok) /\ UNCHANGED rest
  \/ \E id \in Ids, ok \in oks : MaySend(overlap) /\ PermanentDeleteFind(id, ok) /\ UNCHANGED rest

\* a suspended request resumes at its await
Resume(oks) ==
  \/ \E s \in Slots, ok \in oks : CreateBlobInsert(s, ok) /\ UNCHANGED rest
  \/ \E s \in Slots, ok \in oks : PermanentDeleteLookup(s, ok) /\ UNCHANGED rest
  \/ \E s \in Slots, ok \in oks : PermanentDeleteUnlink(s, ok) /\ UNCHANGED rest
  \/ \E s \in Slots, ok \in oks : PermanentDeleteRemove(s, ok) /\ UNCHANGED rest

\* one client sending arbitrary texts: each request is answered before the
\* next one is sent
Next ==
  \/ Request(TextInputs, BOOLEAN, {True, False}, {"all"}, BOOLEAN, FALSE)
  \/ Resume(BOOLEAN)

Spec == Init /\ [][Next]_vars

\* one client sending arbitrary completed and status values to a store
\* that answers, while the clock advances
NextLife ==
  \/ Tick /\ UNCHANGED rest
  \/ Request({<<"a">>}, BOOLEAN, CompletedInputs, StatusInputs, {TRUE}, FALSE)
  \/ Resume({TRUE})

SpecLife == Init /\ [][NextLife]_vars

\* several clients: a request is accepted while others are suspended
NextConc ==
  \/ Request({<<"a">>}, BOOLEAN, {True}, {"all"}, BOOLEAN, TRUE)
  \/ Resume(BOOLEAN)

SpecConc == Init /\ [][NextConc]_vars

\* ------------------------------------------------------- startup
\* Both servers call app.listen() right after starting to connect, so the
\* process accepts requests before the outcome of the connection is known.
\* While it is connecting, the store operations of a handler are buffered
\* and run once the outcome is known; such a request is modelled as served
\* then.
InitStart == Startup /\ connection = "connecting" /\ NoPage

\* the connection opens: mongoose.connect resolves / conn emits 'open'
ConnectOpen ==
  /\ connection = "connecting"
  /\ connection' = "open"
  /\ UNCHANGED <<variant, tasks, nextId, blobs, nextBlob, clock, inflight, resp, clientVars>>

\* the connection fails.  The path variant's .catch calls process.exit(1).
\* The blob variant handles neither the rejection nor an 'error' event:
\* whether the unhandled rejection ends the process (crash) depends on the
\* runtime.
ConnectFail(crash) ==
  /\ connection = "connecting"
  /\ connection' = IF variant = "path" \/ crash THEN "exited" ELSE "failed"
  /\ UNCHANGED <<variant, tasks, nextId, blobs, nextBlob, clock, inflight, resp, clientVars>>

\* a create request without a text is answered before any store operation,
\* whatever the state of the connection of a running process
EarlyReject(text, hasFile) ==
  /\ connection \in {"connecting", "failed"}
  /\ Falsy(OptTrim(text))
  /\ CreatePath(text, hasFile, TRUE) \/ CreateBlob(text, hasFile, TRUE)
  /\ UNCHANGED rest

\* a request to the running blob server whose connection has failed: its
\* first store operation throws (gfsBucket is undefined, a buffered model
\* operation times out), and the handler's catch block answers
Degraded ==
  \/ \E hasFile \in BOOLEAN :
        connection = "failed" /\ CreateBlob(<<"a">>, hasFile, FALSE) /\ UNCHANGED rest
  \/ connection = "failed" /\ View("all", FALSE) /\ UNCHANGED rest
  \/ \E id \in Ids : connection = "failed" /\ Status(id, True, FALSE) /\ UNCHANGED rest
  \/ \E id \in Ids : connection = "failed" /\ Edit(id, <<"a">>, FALSE) /\ UNCHANGED rest
  \/ \E id \in Ids : connection = "failed" /\ SoftDelete(id, FALSE) /\ UNCHANGED rest
  \/ \E id \in Ids : connection = "failed" /\ Restore(id, FALSE) /\ UNCHANGED rest
  \/ \E name \in BlobNames : connection = "failed" /\ File(name, FALSE) /\ UNCHANGED rest
  \/ \E id \in Ids : connection = "failed" /\ PermanentDeleteFind(id, FALSE) /\ UNCHANGED rest

\* a server from the start of its process on, with one client
NextStart ==
  \/ ConnectOpen
  \/ \E crash \in BOOLEAN : ConnectFail(crash)
  \/ \E text \in {<<>>, NoText}, hasFile \in BOOLEAN : EarlyReject(text, hasFile)
  \/ Degraded
  \/ Request({<<"a">>}, BOOLEAN, {True}, {"all"}, {TRUE}, FALSE)
  \/ Resume({TRUE})

SpecStart == InitStart /\ [][NextStart]_vars

\* ------------------------------------------------------- client
\* what the server parts of a step of the page leave alone
server == <<variant, tasks, nextId, blobs, nextBlob, clock, inflight, resp>>

\* the task document id as JSON: what the page reads of it
Row(id) == [id |-> id, text |-> tasks[id].text, completed |-> tasks[id].completed]

\* whether a completed flag is truthy
Truthy(v) == v = True

\* !task.completed
Not(v) == IF Truthy(v) THEN False ELSE True

\* the rows applyFilterAndRender(tasks) hands to renderList
applyFilterAndRender(rows) ==
  LET Keep(t) == IF currentFilter = "completed" THEN Truthy(t.completed)
                 ELSE IF currentFilter = "incomplete" THEN ~Truthy(t.completed)
                 ELSE TRUE
  IN SelectSeq(rows, Keep)

\* the rows renderList(tasks) shows: a body that is not an array has no
\* length, so the list shows 'No tasks found'
renderList(isList, rows) == IF isList THEN rows ELSE <<>>

\* the handlers that send a request that changes the store
Mutating == {"create", "toggle", "edit", "delete"}

HasFreeCall == \E c \in Calls : calls[c] = IdleCall
FreeCall == CHOOSE c \in Calls : calls[c] = IdleCall /\ \A d \in 1..(c - 1) : calls[d] # IdleCall

\* an async function sends its first request and is suspended
StartCall(call) ==
  /\ HasFreeCall
  /\ calls' = [calls EXCEPT ![FreeCall] = call]

\* loadTasks() called on its own: its fetch of /view is on its way
LoadCall == [IdleCall EXCEPT !.kind = "load", !.load = "sent"]

\* the page has been loaded: the script has run to its last line, loadTasks()
InitClient ==
  /\ Startup
  /\ connection = "open"
  /\ currentFilter = "all"
  /\ list = <<>>
  /\ calls = [c \in Calls |-> IF c = 1 THEN LoadCall ELSE IdleCall]

\* form.onsubmit with input.value = text
Submit(text) ==
  /\ IF Falsy(Trim(text)) THEN UNCHANGED calls
     ELSE StartCall([IdleCall EXCEPT !.kind = "create", !.req = "sent", !.text = Trim(text)])
  /\ UNCHANGED <<server, connection, currentFilter, list>>

\* variant of toggleComplete that does not await the response
ToggleCompleteNoAwait(i) ==
  /\ i \in 1..Len(list)
  /\ StartCall([IdleCall EXCEPT !.kind = "toggle", !.req = "sent", !.load = "sent",
                                !.id = list[i].id, !.completed = Not(list[i].completed)])
  /\ UNCHANGED <<server, connection, currentFilter, list>>

\* toggleComplete(task), task the i-th rendered row
ToggleComplete(i) ==
  /\ i \in 1..Len(list)
  /\ StartCall([IdleCall EXCEPT !.kind = "toggle", !.req = "sent",
                                !.id = list[i].id, !.completed = Not(list[i].completed)])
  /\ UNCHANGED <<server, connection, currentFilter, list>>

\* the save button of editTask(li, task), with inputField.value = text
SaveEdit(i, text) ==
  /\ i \in 1..Len(list)
  /\ IF Falsy(Trim(text)) THEN UNCHANGED calls
     ELSE StartCall([IdleCall EXCEPT !.kind = "edit", !.req = "sent",
                                     !.id = list[i].id, !.text = Trim(text)])
  /\ UNCHANGED <<server, connection, currentFilter, list>>

\* the cancel button of editTask
CancelEdit ==
  /\ list # <<>>
  /\ StartCall(LoadCall)
  /\ UNCHANGED <<server, connection, currentFilter, list>>

\* deleteTask(task), task the i-th rendered row; confirmed: confirm()
DeleteTask(i, confirmed) ==
  /\ i \in 1..Len(list)
  /\ IF ~confirmed THEN UNCHANGED calls
     ELSE StartCall([IdleCall EXCEPT !.kind = "delete", !.req = "sent", !.id = list[i].id])
  /\ UNCHANGED <<server, connection, currentFilter, list>>

\* filter.onchange
FilterChange(f) ==
  /\ currentFilter' = f
  /\ StartCall(LoadCall)
  /\ UNCHANGED <<server, connection, list>>

\* completedBtn.onclick up to its await
CompletedClick ==
  /\ StartCall([IdleCall EXCEPT !.kind = "completed", !.req = "sent"])
  /\ UNCHANGED <<server, connection, currentFilter, list>>

\* the catch-all route: any request no route matches, such as
\* GET /api/tasks/completed
RouteNotFound == "Route not found"

CatchAll ==
  /\ Respond("other", 404, RouteNotFound, <<>>)
  /\ UNCHANGED <<variant, tasks, nextId, blobs, nextBlob, clock, inflight>>

\* the server handles the request of a call; ok: the store answers
ServeCreate(c, ok) ==
  /\ calls[c].kind = "create" /\ calls[c].req = "sent"
  /\ CreatePath(calls[c].text, FALSE, ok) \/ CreateBlob(calls[c].text, FALSE, ok)
  /\ calls' = [calls EXCEPT ![c].req = "served"]
  /\ UNCHANGED <<connection, currentFilter, list>>

ServeToggle(c, ok) ==
  /\ calls[c].kind = "toggle" /\ calls[c].req = "sent"
  /\ Status(calls[c].id, calls[c].completed, ok)
  /\ calls' = [calls EXCEPT ![c].req = "served"]
  /\ UNCHANGED <<connection, currentFilter, list>>

ServeEdit(c, ok) ==
  /\ calls[c].kind = "edit" /\ calls[c].req = "sent"
  /\ Edit(calls[c].id, calls[c].text, ok)
  /\ calls' = [calls EXCEPT ![c].req = "served"]
  /\ UNCHANGED <<connection, currentFilter, list>>

ServeDelete(c, ok) ==
  /\ calls[c].kind = "delete" /\ calls[c].req = "sent"
  /\ SoftDelete(calls[c].id, ok)
  /\ calls' = [calls EXCEPT ![c].req = "served"]
  /\ UNCHANGED <<connection, currentFilter, list>>

\* GET /api/tasks/completed: no such route in either server
ServeCompleted(c) ==
  /\ calls[c].kind = "completed" /\ calls[c].req = "sent"
  /\ CatchAll
  /\ calls' = [calls EXCEPT ![c].req = "served", ![c].isList = FALSE, ![c].rows = <<>>]
  /\ UNCHANGED <<connection, currentFilter, list>>

\* GET /api/tasks/view without a status, sent by loadTasks()
ServeLoad(c, ok) ==
  /\ calls[c].load = "sent"
  /\ View(Undefined, ok)
  /\ calls' = [calls EXCEPT ![c].load = "served",
                            ![c].isList = (resp'.code = 200),
                            ![c].rows = [i \in 1..Len(resp'.out) |-> Row(resp'.out[i])]]
  /\ UNCHANGED <<connection, currentFilter, list>>

\* await fetchJSON(...) of a mutating handler resolves, whatever the status
\* of the response; the handler goes on to loadTasks()
ReceiveResponse(c) ==
  /\ calls[c].kind \in Mutating /\ calls[c].req = "served"
  /\ calls' = [calls EXCEPT ![c].req = "done", ![c].load = "sent"]
  /\ UNCHANGED <<server, connection, currentFilter, list>>

\* await fetchJSON(`${API}/view`) of loadTasks() resolves: an array is
\* filtered and rendered; on any other body tasks.filter throws and the
\* list stays
ReceiveList(c) ==
  /\ calls[c].load = "served"
  /\ list' = IF calls[c].isList THEN renderList(TRUE, applyFilterAndRender(calls[c].rows))
             ELSE list
  /\ calls' = [calls EXCEPT ![c] = IdleCall]
  /\ UNCHANGED <<server, connection, currentFilter>>

\* await fetchJSON(`${API}/completed`) resolves
ReceiveCompleted(c) ==
  /\ calls[c].kind = "completed" /\ calls[c].req = "served"
  /\ currentFilter' = "completed"
  /\ list' = renderList(calls[c].isList, calls[c].rows)
  /\ calls' = [calls EXCEPT ![c] = IdleCall]
  /\ UNCHANGED <<server, connection>>

\* the texts the user types
Typed == {<<"a">>, <<" ">>}

\* one page and a server whose store answers
NextClient ==
  \/ \E text \in Typed : Submit(text)
  \/ \E i \in Ids : ToggleComplete(i)
  \/ \E i \in Ids, text \in Typed : SaveEdit(i, text)
  \/ CancelEdit
  \/ \E i \in Ids, confirmed \in BOOLEAN : DeleteTask(i, confirmed)
  \/ \E f \in {"all", "completed", "incomplete"} : FilterChange(f)
  \/ CompletedClick
  \/ \E c \in Calls : ServeCreate(c, TRUE)
  \/ \E c \in Calls : ServeToggle(c, TRUE)
  \/ \E c \in Calls : ServeEdit(c, TRUE)
  \/ \E c \in Calls : ServeDelete(c, TRUE)
  \/ \E c \in Calls : ServeCompleted(c)
  \/ \E c \in Calls : ServeLoad(c, TRUE)
  \/ \E c \in Calls : ReceiveResponse(c)
  \/ \E c \in Calls : ReceiveList(c)
  \/ \E c \in Calls : ReceiveCompleted(c)

SpecClient == InitClient /\ [][NextClient]_vars

\* ------------------------------------------------------- claims
\* a body text that is missing, empty or made of whitespace only
Blank(text) == IF text = NoText THEN TRUE ELSE \A i \in 1..Len(text) : text[i] = " "

\* C1: a create request whose text is missing, empty or whitespace-only is
\* answered 400 and leaves the task records and the stored blobs as they
\* were, in both variants.
C1_BlankCreateRejected ==
  [][resp'.op = "create" =>
       \A text \in TextInputs, hasFile \in BOOLEAN, ok \in BOOLEAN :
         (Blank(text) /\ (CreatePath(text, hasFile, ok) \/ CreateBlob(text, hasFile, ok)))
           => (resp'.code = 400 /\ tasks' = tasks /\ blobs' = blobs)]_vars

C1_Witness ==
  /\ resp.op = "create" /\ resp.code = 400
  /\ DOMAIN tasks # {}

\* C2: every task record has a text that is non-empty after trimming.
C2_TextNeverBlank ==
  \A id \in DOMAIN tasks : ~Blank(tasks[id].text)

C2_Witness ==
  /\ resp.op = "edit" /\ resp.code = 500 /\ resp.error = ValidationError
  /\ \E id \in Ids : Active(id)

\* C3 (as claimed): an edit of an existing active task with a missing,
\* empty or whitespace-only text is answered 400 and leaves the record
\* unchanged.
C3_BlankEditIs400 ==
  [][resp'.op = "edit" =>
       \A id \in Ids, text \in TextInputs :
         (Blank(text) /\ Active(id) /\ Edit(id, text, TRUE))
           => (resp'.code = 400 /\ tasks' = tasks)]_vars

\* what GET /view?status=... returns in the current state, as a set
ViewSet(status) == Find(buildFilter(status))

\* C4 (as claimed): the views select exactly the documents the claim names;
\* every existing task is in exactly one of all and trashed; and all is the
\* disjoint union of completed and incomplete.
C4_ViewsPartition ==
  /\ ViewSet("completed") =
       {i \in DOMAIN tasks : tasks[i].completed = True /\ tasks[i].deletedAt = NullDate}
  /\ ViewSet("incomplete") =
       {i \in DOMAIN tasks : tasks[i].completed = False /\ tasks[i].deletedAt = NullDate}
  /\ ViewSet("trashed") = {i \in DOMAIN tasks : tasks[i].deletedAt # NullDate}
  /\ \A st \in {"all", "other", Undefined} :
       ViewSet(st) = {i \in DOMAIN tasks : tasks[i].deletedAt = NullDate}
  /\ ViewSet("all") \cup ViewSet("trashed") = DOMAIN tasks
  /\ ViewSet("all") \cap ViewSet("trashed") = {}
  /\ ViewSet("all") = ViewSet("completed") \cup ViewSet("incomplete")
  /\ ViewSet("completed") \cap ViewSet("incomplete") = {}

\* the fields of a document other than deletedAt
Core(doc) ==
  [text |-> doc.text, completed |-> doc.completed, attachment |-> doc.attachment,
   createdAt |-> doc.createdAt]

\* C5: a soft delete moves an active task from the all, completed and
\* incomplete views to the trashed view and changes none of its other
\* fields; nothing changes those fields while it is trashed; a restore
\* takes it out of the trashed view and back into the all view and the
\* completed or incomplete view its flag names, with those fields as they
\* were.
C5_RestoreReversesSoftDelete ==
  [][\A id \in Ids :
       /\ (Active(id) /\ resp'.op = "delete" /\ SoftDelete(id, TRUE)) =>
             /\ id \notin ViewSet("all")' \cup ViewSet("completed")' \cup ViewSet("incomplete")'
             /\ id \in ViewSet("trashed")'
             /\ Core(tasks'[id]) = Core(tasks[id])
       /\ (Trashed(id) /\ id \in DOMAIN tasks') => Core(tasks'[id]) = Core(tasks[id])
       /\ (Trashed(id) /\ resp'.op = "restore" /\ Restore(id, TRUE)) =>
             /\ id \notin ViewSet("trashed")'
             /\ id \in ViewSet("all")'
             /\ id \in ViewSet("completed")' <=> tasks[id].completed = True
             /\ id \in ViewSet("incomplete")' <=> tasks[id].completed = False
             /\ Core(tasks'[id]) = Core(tasks[id])]_vars

C5_Witness ==
  /\ resp.op = "restore" /\ resp.code = 200
  /\ \E id \in Ids : Active(id) /\ resp.out = <<id>> /\ tasks[id].completed = True
                     /\ tasks[id].attachment # NoAttachment

\* C6: a permanent delete of a task that is not trashed (no document with
\* that id, or an active one) is answered 404 by a store that answers, and
\* leaves every task record and every stored blob unchanged.
C6_PermanentDeleteNeedsTrash ==
  [][resp'.op = "pdelete" =>
       \A id \in Ids :
         (~Trashed(id) /\ (PermanentDeletePath(id, TRUE) \/ PermanentDeleteFind(id, TRUE)))
           => (resp'.code = 404 /\ tasks' = tasks /\ blobs' = blobs)]_vars

C6_Witness ==
  /\ resp.op = "pdelete" /\ resp.code = 404
  /\ \E id \in Ids : Active(id)

\* C7 (as claimed): in every interleaving, a task record is removed only
\* while the task is trashed; an active task, such as one just restored,
\* stays in the store.
C7_RemovedOnlyWhileTrashed ==
  [][\A id \in Ids : (id \in DOMAIN tasks /\ id \notin DOMAIN tasks') => Trashed(id)]_vars

\* C8: in the blob variant, when a permanent delete of a task with an
\* attachment is answered 200, the task is in no view and its blob is not
\* in the store; a removed task and a deleted blob never come back; and
\* GET /file answers 404 exactly for the names that are not in the store.
C8_PermanentDeleteRemovesBlob ==
  [][/\ \A s \in Slots :
          (/\ resp'.op = "pdelete" /\ resp'.code = 200
           /\ inflight[s].file # NoAttachment
           /\ PermanentDeleteRemove(s, TRUE)) =>
             /\ \A st \in StatusInputs : inflight[s].id \notin ViewSet(st)'
             /\ inflight[s].file \notin blobs'
     /\ \A id \in Ids : (id < nextId /\ id \notin DOMAIN tasks) => id \notin DOMAIN tasks'
     /\ \A f \in BlobNames : (f < nextBlob /\ f \notin blobs) => f \notin blobs'
     /\ resp'.op = "file" =>
          \A f \in BlobNames : File(f, TRUE) => (resp'.code = 404 <=> f \notin blobs)]_vars

C8_Witness ==
  /\ variant = "blob"
  /\ resp.op = "file" /\ resp.code = 404
  /\ \E f \in BlobNames :
       /\ f < nextBlob /\ f \notin blobs
       /\ \A id \in DOMAIN tasks : tasks[id].attachment # f
  /\ nextId > 1 /\ DOMAIN tasks = {}

\* C9 (as claimed): in the blob variant, when no request is in flight,
\* every stored blob is the attachment of exactly one task record.
C9_NoOrphanedBlobs ==
  (variant = "blob" /\ Quiet) =>
    \A f \in blobs : Cardinality({id \in DOMAIN tasks : tasks[id].attachment = f}) = 1

C11_InvalidStatusIs400 ==
  [][resp'.op = "status" =>
       \A primary \in PrimaryInputs, completed \in CompletedInputs :
         (/\ completed \notin {True, False} \/ primary = NoId
          /\ Status(primary, completed, TRUE))
           => (resp'.code = 400 /\ tasks' = tasks)]_vars

\* C12: a soft delete of a task that is absent or already trashed, and a
\* restore of a task that is absent or active, are answered 404 by a store
\* that answers and leave every task record (the deletedAt of a trashed
\* task included) and every stored blob unchanged.
C12_LifecyclePreconditions ==
  [][\A id \in Ids :
       /\ (resp'.op = "delete" /\ ~Active(id) /\ SoftDelete(id, TRUE))
             => (resp'.code = 404 /\ tasks' = tasks /\ blobs' = blobs)
       /\ (resp'.op = "restore" /\ ~Trashed(id) /\ Restore(id, TRUE))
             => (resp'.code = 404 /\ tasks' = tasks /\ blobs' = blobs)]_vars

\* a soft delete was refused while every task was trashed at an earlier
\* time than now
C12_Witness ==
  /\ resp.op = "delete" /\ resp.code = 404
  /\ DOMAIN tasks = Ids
  /\ \A id \in Ids : Trashed(id) /\ tasks[id].deletedAt < clock

\* C13 (as claimed): the list a view returns is ordered by creation,
\* newest first: of any two tasks in it, the one created later (the store
\* assigns _ids in creation order) comes first, also when both were created
\* within the same clock tick.
C13_ViewNewestFirst ==
  (resp.op = "view" /\ resp.code = 200) =>
    \A i, j \in 1..Len(resp.out) : i < j => resp.out[i] > resp.out[j]

\* C14: a status, edit, soft-delete or restore request removes and adds no
\* record and keeps every task's createdAt and attachment; a status request
\* changes at most completed, an edit at most text, a soft delete or
\* restore at most deletedAt; and the only record that changes is the one
\* the request addresses (the one its 200 response returns).
C14_OnlyOwnFieldChanges ==
  [][resp'.op \in {"status", "edit", "delete", "restore"} =>
       /\ DOMAIN tasks' = DOMAIN tasks
       /\ \A id \in DOMAIN tasks :
            /\ tasks'[id].createdAt = tasks[id].createdAt
            /\ tasks'[id].attachment = tasks[id].attachment
            /\ resp'.op # "status" => tasks'[id].completed = tasks[id].completed
            /\ resp'.op # "edit" => tasks'[id].text = tasks[id].text
            /\ resp'.op \notin {"delete", "restore"} =>
                 tasks'[id].deletedAt = tasks[id].deletedAt
            /\ tasks'[id] # tasks[id] => (resp'.code = 200 /\ resp'.out = <<id>>)
       /\ \A other \in DOMAIN tasks :
            tasks'[other] # tasks[other] =>
              \A id \in Ids \ {other} :
                ~(\/ \E completed \in CompletedInputs, ok \in BOOLEAN : Status(id, completed, ok)
                  \/ \E text \in TextInputs, ok \in BOOLEAN : Edit(id, text, ok)
                  \/ \E ok \in BOOLEAN : SoftDelete(id, ok) \/ Restore(id, ok))]_vars

\* an edit has set the text of a completed task with an attachment while
\* another task with another text exists
C14_Witness ==
  /\ resp.op = "edit" /\ resp.code = 200
  /\ \E id, other \in DOMAIN tasks :
       /\ resp.out = <<id>>
       /\ tasks[id].text = <<"a", "a">> /\ tasks[id].completed = True
       /\ tasks[id].attachment # NoAttachment
       /\ tasks[other].text = <<"a">>

\* an id the store has assigned whose record is gone
Removed(id) == id < nextId /\ ~Exists(id)

\* C15 (as claimed): a task is active, trashed or removed; a record appears
\* only by creation, as an active task with a fresh id; an active task
\* leaves that state only to trashed, and a trashed one only to active or
\* removed; and removed is absorbing: a removed task never comes back, is in
\* no view, and every later status, edit, soft-delete, restore or
\* permanent-delete request on its id is answered 404 by a store that
\* answers.
C15_Lifecycle ==
  [][\A id \in Ids :
       /\ (~Exists(id) /\ Exists(id)') => (id = nextId /\ Active(id)')
       /\ (Active(id) /\ ~Active(id)') => Trashed(id)'
       /\ (Trashed(id) /\ ~Trashed(id)') => (Active(id)' \/ ~Exists(id)')
       /\ Removed(id) =>
            /\ Removed(id)'
            /\ \A st \in StatusInputs : id \notin ViewSet(st)'
            /\ (/\ resp'.op \in {"status", "edit", "delete", "restore", "pdelete"}
                /\ \/ \E completed \in {True, False} : Status(id, completed, TRUE)
                   \/ \E text \in Strings : ~Blank(text) /\ Edit(id, text, TRUE)
                   \/ SoftDelete(id, TRUE) \/ Restore(id, TRUE)
                   \/ PermanentDeletePath(id, TRUE) \/ PermanentDeleteFind(id, TRUE))
                 => resp'.code = 404]_vars

\* the messages that are the err.message of an internal error
ErrorDetails == {StoreError, ValidationError, CastError, FileNotFound}

\* C16 (as claimed): a response with status 500 carries a generic message,
\* never the message of the internal error.
C16_GenericErrorMessage ==
  resp.code = 500 => resp.error \notin ErrorDetails

\* C19 (as claimed): in the blob variant every task record with an
\* attachment names a blob that is in the store, also while requests are
\* in flight or have failed.
C19_AttachmentsExist ==
  variant = "blob" =>
    \A id \in DOMAIN tasks :
      tasks[id].attachment # NoAttachment => tasks[id].attachment \in blobs

\* C18 (as claimed): once the connection to the store has failed, the
\* process is gone: no state has a running process with a failed
\* connection, and no request is answered after the failure.
C18_StartupFailureIsFatal ==
  [][connection' # "failed" /\ (connection \in {"failed", "exited"} => resp' = resp)]_vars

\* the rows of the active tasks that match filter f, in an order the
\* store's sort by createdAt allows
CurrentRows(f) ==
  {[i \in 1..Len(q) |-> Row(q[i])] : q \in SortedDesc(Find(buildFilter(f)))}

\* C17: in the page, a mutating handler issues its list fetch exactly when
\* the response to its request arrives (never before, and the arrival is
\* always followed by the fetch); the server answers that fetch from the
\* store as it is after the mutation; and a submit of an empty or
\* whitespace-only text sends nothing.
C17_RefetchAfterResponse ==
  [][/\ \A c \in Calls :
          /\ (calls'[c].kind \in Mutating /\ calls'[c].load = "sent" /\ calls[c].load # "sent")
               => (calls[c].kind = calls'[c].kind /\ calls[c].req = "served")
          /\ (calls[c].kind \in Mutating /\ calls[c].req = "served" /\ calls'[c] # calls[c])
               => (calls'[c].kind = calls[c].kind /\ calls'[c].load = "sent")
          /\ (calls[c].kind \in Mutating /\ calls[c].load = "sent" /\ calls'[c].load = "served")
               => (calls[c].req = "done" /\ calls'[c].isList /\ calls'[c].rows \in CurrentRows("all"))
     /\ calls' # calls => \A text \in Strings : Blank(text) => ~Submit(text)]_vars

\* the list fetched after a toggle has arrived with the toggled task
\* completed
C17_Witness ==
  \E c \in Calls :
    /\ calls[c].kind = "toggle" /\ calls[c].load = "served" /\ calls[c].completed = True
    /\ \E i \in 1..Len(calls[c].rows) :
         calls[c].rows[i].id = calls[c].id /\ calls[c].rows[i].completed = True

\* no handler of the page is suspended at a fetch
ClientQuiet == \A c \in Calls : calls[c] = IdleCall

\* C20 (as claimed): once every request of the page has completed, the
\* rendered list is the server's active tasks that match currentFilter,
\* newest first.
C20_RenderedListIsCurrent ==
  ClientQuiet => list \in CurrentRows(currentFilter)

====
